---- MODULE Spec2Model ----
(***************************************************************************)
(* Resume markdown parser and HTML renderer of                             *)
(* resume-tailoring/scripts/render_pretty_resume.py.                       *)
(*                                                                         *)
(* A Python str is a sequence of one-character strings; a line of the      *)
(* document is such a sequence.  The line cursor i is 0-based as in the    *)
(* source, so the line under the cursor is lines[i + 1].                   *)
(***************************************************************************)
EXTENDS Integers, Sequences, FiniteSets, TLC

VARIABLES
    lines,            \* md_text.splitlines()
    pc,               \* position in parse_markdown / main
    i,                \* line cursor of parse_markdown
    current_section,  \* lower-cased text of the last "## " heading seen
    data,             \* the record being built
    title, meta, subtitle, bullets,   \* locals of the "### " branch
    parts,            \* local of the professional-summary branch
    arg_image,        \* args.profile_image of main (empty when not given)
    profile_image,    \* build_html's profile_image argument
    target_label,     \* build_html's target_label argument
    html_out,         \* the document build_html returns
    input_exists,     \* export_resume: input_md.exists()
    formats,          \* export_resume: args.formats
    available,        \* the binaries shutil.which finds
    docx_exists,      \* output_docx.exists()
    pdf_exists,       \* output_pdf.exists()
    requested,        \* locals of export_resume.main
    ok, docx_generated, pdf_generated,
    docx_hint,        \* TRUE when main passes output_docx, FALSE when None
    attempt,          \* position in export_pdf's list of pandoc attempts
    entered,          \* the export functions main has called
    calls,            \* the commands handed to run, in order, with results
    exit_code         \* what main returns; -1 while it runs

exportVars ==
    <<input_exists, formats, available, docx_exists, pdf_exists, requested, ok,
      docx_generated, pdf_generated, docx_hint, attempt, entered, calls,
      exit_code>>

vars == <<lines, pc, i, current_section, data, title, meta, subtitle, bullets,
          parts, arg_image, profile_image, target_label, html_out,
          input_exists, formats, available, docx_exists, pdf_exists, requested,
          ok, docx_generated, pdf_generated, docx_hint, attempt, entered, calls,
          exit_code>>

---------------------------------------------------------------------------
(* Bounds of the model *)

MaxLines == 4

\* lines of a document that goes through main
MainMaxLines == 3

\* entries of the lists of a record handed to build_html
MaxFit == 6
MaxContacts == 5
MaxSkills == 13
MaxItems == 2

\* entries of --formats
MaxFormats == 2

---------------------------------------------------------------------------
(* str methods used by the source *)

IsSpace(c) == c \in {" ", "\t"}

RECURSIVE LStrip(_)
LStrip(s) == IF s # <<>> /\ IsSpace(Head(s)) THEN LStrip(Tail(s)) ELSE s

RECURSIVE RStrip(_)
RStrip(s) ==
    IF s # <<>> /\ IsSpace(s[Len(s)]) THEN RStrip(SubSeq(s, 1, Len(s) - 1)) ELSE s

Strip(s) == RStrip(LStrip(s))

StartsWith(s, p) == Len(s) >= Len(p) /\ SubSeq(s, 1, Len(p)) = p

EndsWith(s, p) == Len(s) >= Len(p) /\ SubSeq(s, Len(s) - Len(p) + 1, Len(s)) = p

Contains(s, p) == \E k \in 0..(Len(s) - Len(p)) : SubSeq(s, k + 1, k + Len(p)) = p

\* s[k:]
Drop(s, k) == SubSeq(s, k + 1, Len(s))

\* s.find(c) for a single character c: 0-based, -1 when absent
Find(s, c) ==
    IF \E k \in 1..Len(s) : s[k] = c
    THEN (CHOOSE k \in 1..Len(s) : s[k] = c /\ \A j \in 1..(k - 1) : s[j] # c) - 1
    ELSE -1

RECURSIVE LStripChar(_, _)
LStripChar(s, c) == IF s # <<>> /\ Head(s) = c THEN LStripChar(Tail(s), c) ELSE s

\* s.rstrip(c)
RECURSIVE RStripChar(_, _)
RStripChar(s, c) ==
    IF s # <<>> /\ s[Len(s)] = c THEN RStripChar(SubSeq(s, 1, Len(s) - 1), c) ELSE s

\* s.strip(c)
StripChar(s, c) == RStripChar(LStripChar(s, c), c)

\* s.replace(p, ""), for a non-empty p
RECURSIVE Remove(_, _)
Remove(s, p) ==
    IF s = <<>> THEN <<>>
    ELSE IF StartsWith(s, p) THEN Remove(Drop(s, Len(p)), p)
    ELSE <<Head(s)>> \o Remove(Tail(s), p)

Upper == <<"A","B","C","D","E","F","G","H","I","J","K","L","M",
           "N","O","P","Q","R","S","T","U","V","W","X","Y","Z">>
LowerLetters == <<"a","b","c","d","e","f","g","h","i","j","k","l","m",
                  "n","o","p","q","r","s","t","u","v","w","x","y","z">>

LowerChar(c) ==
    IF \E k \in 1..26 : Upper[k] = c
    THEN LowerLetters[CHOOSE k \in 1..26 : Upper[k] = c]
    ELSE c

\* s.lower()
Lower(s) == [k \in 1..Len(s) |-> LowerChar(s[k])]

\* " ".join(ps)
RECURSIVE Join(_)
Join(ps) ==
    IF ps = <<>> THEN <<>>
    ELSE IF Len(ps) = 1 THEN ps[1]
    ELSE ps[1] \o <<" ">> \o Join(Tail(ps))

---------------------------------------------------------------------------
(* String literals of parse_markdown *)

H1 == <<"#", " ">>
H2 == <<"#", "#", " ">>
H3 == <<"#", "#", "#", " ">>
Bold == <<"*", "*">>
Dash == <<"-">>
BulletMark == <<"-", " ">>
Hash == <<"#">>
ProfessionalSummary ==
    <<"p","r","o","f","e","s","s","i","o","n","a","l"," ","s","u","m","m","a","r","y">>
CoreSkills == <<"c","o","r","e"," ","s","k","i","l","l","s">>
RoleAlignment == <<"r","o","l","e"," ","a","l","i","g","n","m","e","n","t">>
Project == <<"p","r","o","j","e","c","t">>
Highlight == <<"h","i","g","h","l","i","g","h","t">>

\* s.startswith("![") and "](" in s and s.endswith(")")
IsImage(s) ==
    /\ StartsWith(s, <<"!", "[">>)
    /\ Contains(s, <<"]", "(">>)
    /\ EndsWith(s, <<")">>)

\* s[s.find("(") + 1 : -1]
ImageTarget(s) == SubSeq(s, Find(s, "(") + 2, Len(s) - 1)

---------------------------------------------------------------------------
(* Input lines the model draws documents from *)

L_Blank == <<" ">>
L_Image == <<"!", "[", "a", "]", "(", "u", ")">>
L_Name == <<"#", " ", "A">>
L_Name2 == <<"#", " ", "B">>
L_Role == <<"*", "*", "R", "*", "*">>
L_Summary ==
    <<"#","#"," ","P","r","o","f","e","s","s","i","o","n","a","l"," ","S","u","m","m","a","r","y">>
L_Skills == <<"#","#"," ","C","o","r","e"," ","S","k","i","l","l","s">>
L_MoreSkills == <<"#","#"," ","C","o","r","e"," ","S","k","i","l","l","s"," ","2">>
L_Fit == <<"#","#"," ","R","o","l","e"," ","A","l","i","g","n","m","e","n","t">>
L_Projects ==
    <<"#","#"," ","P","r","o","j","e","c","t"," ","H","i","g","h","l","i","g","h","t","s">>
L_Item == <<"#", "#", "#", " ", "T">>
L_Bullet == <<"-", " ", "s">>
L_Bullet2 == <<" ", "-", " ", " ", "t", " ">>
L_Text == <<"x">>
L_TextBs == <<"x", "\\">>

\* every kind of line parse_markdown tells apart
CoreLines ==
    {L_Blank, L_Image, L_Name, L_Role, L_Summary, L_Skills, L_Fit, L_Item,
     L_Bullet, L_Text}

AllLines ==
    CoreLines \cup {L_Name2, L_MoreSkills, L_Projects, L_Bullet2, L_TextBs}

Docs(alphabet, maxlen) == UNION {[1..k -> alphabet] : k \in 0..maxlen}

---------------------------------------------------------------------------
(* parse_markdown *)

n == Len(lines)

\* l.strip() of every input line, computed once
Stripped == [l \in AllLines |-> Strip(l)]

\* lines[k].strip()
Line(k) == Stripped[lines[k + 1]]

EmptyData ==
    [name |-> <<>>, role |-> <<>>, contacts |-> <<>>, summary |-> <<>>,
     skills |-> <<>>, experience |-> <<>>, projects |-> <<>>, fit |-> <<>>,
     image_from_md |-> <<>>]

\* the first loop: the target of the first image line, "" when there is none
FirstImage(ls) ==
    IF \E k \in 1..Len(ls) : IsImage(Strip(ls[k]))
    THEN ImageTarget(Strip(ls[
            CHOOSE k \in 1..Len(ls) :
                /\ IsImage(Strip(ls[k]))
                /\ \A j \in 1..(k - 1) : ~IsImage(Strip(ls[j]))]))
    ELSE <<>>

\* line 60 without .lower()
SectionName_NoLower(line) == Strip(Drop(line, 3))

\* line 60
SectionName(line) == Lower(Strip(Drop(line, 3)))

\* line 89
IsProjectSection(sec) == Contains(sec, Project) \/ Contains(sec, Highlight)

\* line 105 with "core skills" in current_section
IsSkillsSection_Substring(sec) == Contains(sec, CoreSkills)

\* line 105 with current_section.startswith("core skills")
IsSkillsSection_Prefix(sec) == StartsWith(sec, CoreSkills)

\* line 105
IsSkillsSection(sec) == sec = CoreSkills

\* line 110
IsFitSection(sec) == Contains(sec, RoleAlignment)

\* export_resume.py is not running
ExportUnchanged == UNCHANGED exportVars

NoExport ==
    /\ input_exists = FALSE /\ formats = <<>> /\ available = {}
    /\ docx_exists = FALSE /\ pdf_exists = FALSE
    /\ requested = {} /\ ok = TRUE
    /\ docx_generated = FALSE /\ pdf_generated = FALSE /\ docx_hint = FALSE
    /\ attempt = 0 /\ entered = {} /\ calls = <<>> /\ exit_code = -1

ParseLocalsUnchanged == UNCHANGED <<title, meta, subtitle, bullets, parts>>
RenderUnchanged == UNCHANGED <<arg_image, profile_image, target_label, html_out>>

\* lines 15-37
ParseBegin ==
    /\ pc = "parse"
    /\ data' = [EmptyData EXCEPT !.image_from_md = FirstImage(lines)]
    /\ i' = 0
    /\ current_section' = <<>>
    /\ pc' = "main"
    /\ UNCHANGED lines
    /\ ParseLocalsUnchanged /\ RenderUnchanged /\ ExportUnchanged

\* the tests the main loop's if-chain makes on a stripped line, computed once
\* for every input line
LineTests ==
    [l \in AllLines |->
        LET line == Strip(l) IN
        [blank |-> line = <<>>,                                       \* line 40
         image |-> IsImage(line),                                     \* line 45
         h1 |-> StartsWith(line, H1),                                 \* line 49
         bold |-> StartsWith(line, Bold) /\ EndsWith(line, Bold),     \* line 54
         h2 |-> StartsWith(line, H2),                                 \* line 59
         h3 |-> StartsWith(line, H3),                                 \* line 64
         bullet |-> StartsWith(line, BulletMark),                     \* lines 105, 110
         hash |-> StartsWith(line, Hash)]]                            \* line 116

\* the branch of the main loop's if-chain (lines 40-119) that takes the line
\* under the cursor
Branch ==
    LET line == LineTests[lines[i + 1]] IN
    IF line.blank THEN "blank"
    ELSE IF line.image THEN "image"
    ELSE IF line.h1 /\ data.name = <<>> THEN "name"
    ELSE IF line.bold /\ data.role = <<>> THEN "role"
    ELSE IF line.h2 THEN "section"
    ELSE IF line.h3 THEN "item"
    ELSE IF current_section = ProfessionalSummary THEN "summary"
    ELSE IF IsSkillsSection(current_section) /\ line.bullet THEN "skill"
    ELSE IF IsFitSection(current_section) /\ line.bullet THEN "fit"
    ELSE IF current_section = <<>> /\ ~line.blank /\ ~line.hash THEN "contact"
    ELSE "drop"

At(b) == pc = "main" /\ i < n /\ Branch = b

InSeq(x, s) == \E k \in 1..Len(s) : s[k] = x

\* lines 38, 121
Return ==
    /\ pc = "main" /\ ~(i < n)
    /\ pc' = "done"
    /\ UNCHANGED <<lines, i, current_section, data>>
    /\ ParseLocalsUnchanged /\ RenderUnchanged /\ ExportUnchanged

\* lines 40-42
SkipBlank ==
    /\ At("blank")
    /\ i' = i + 1
    /\ UNCHANGED <<lines, pc, current_section, data>>
    /\ ParseLocalsUnchanged /\ RenderUnchanged /\ ExportUnchanged

\* lines 45-47
SkipImage ==
    /\ At("image")
    /\ i' = i + 1
    /\ UNCHANGED <<lines, pc, current_section, data>>
    /\ ParseLocalsUnchanged /\ RenderUnchanged /\ ExportUnchanged

\* lines 49-52
SetName ==
    /\ At("name")
    /\ data' = [data EXCEPT !.name = Strip(Drop(Line(i), 2))]
    /\ i' = i + 1
    /\ UNCHANGED <<lines, pc, current_section>>
    /\ ParseLocalsUnchanged /\ RenderUnchanged /\ ExportUnchanged

\* lines 54-57
SetRole ==
    /\ At("role")
    /\ data' = [data EXCEPT !.role = Strip(StripChar(Line(i), "*"))]
    /\ i' = i + 1
    /\ UNCHANGED <<lines, pc, current_section>>
    /\ ParseLocalsUnchanged /\ RenderUnchanged /\ ExportUnchanged

\* lines 59-62
SetSection ==
    /\ At("section")
    /\ current_section' = SectionName(Line(i))
    /\ i' = i + 1
    /\ UNCHANGED <<lines, pc, data>>
    /\ ParseLocalsUnchanged /\ RenderUnchanged /\ ExportUnchanged

\* lines 64-68, without the i += 1 of line 69
ItemBegin_NoAdvance ==
    /\ At("item")
    /\ title' = Strip(Drop(Line(i), 4))
    /\ meta' = <<>>
    /\ bullets' = <<>>
    /\ subtitle' = <<>>
    /\ pc' = "item_blanks"
    /\ UNCHANGED <<lines, i, current_section, data, parts>>
    /\ RenderUnchanged /\ ExportUnchanged

\* lines 64-69
ItemBegin ==
    /\ At("item")
    /\ title' = Strip(Drop(Line(i), 4))
    /\ meta' = <<>>
    /\ bullets' = <<>>
    /\ subtitle' = <<>>
    /\ i' = i + 1
    /\ pc' = "item_blanks"
    /\ UNCHANGED <<lines, current_section, data, parts>>
    /\ RenderUnchanged /\ ExportUnchanged

\* the condition of line 70
BlankCond == IF i < n THEN Line(i) = <<>> ELSE FALSE

\* lines 70-71, one iteration
ItemSkipBlank ==
    /\ pc = "item_blanks" /\ BlankCond
    /\ i' = i + 1
    /\ UNCHANGED <<lines, pc, current_section, data>>
    /\ ParseLocalsUnchanged /\ RenderUnchanged /\ ExportUnchanged

\* the condition of line 72
MetaCond == IF i < n THEN StartsWith(Line(i), Bold) ELSE FALSE

\* lines 72-74, taken when the loop of line 70 ends
ItemMeta ==
    /\ pc = "item_blanks" /\ ~BlankCond
    /\ IF MetaCond
       THEN meta' = Strip(Remove(Line(i), Bold)) /\ i' = i + 1
       ELSE UNCHANGED <<meta, i>>
    /\ pc' = "item_subtitle"
    /\ UNCHANGED <<lines, current_section, data, title, subtitle, bullets, parts>>
    /\ RenderUnchanged /\ ExportUnchanged

\* the condition of line 75
SubtitleCond ==
    IF i < n
    THEN /\ Line(i) # <<>>
         /\ ~StartsWith(Line(i), Dash)
         /\ ~StartsWith(Line(i), H2)
    ELSE FALSE

\* lines 75-77
ItemSubtitle ==
    /\ pc = "item_subtitle"
    /\ IF SubtitleCond
       THEN subtitle' = Line(i) /\ i' = i + 1
       ELSE UNCHANGED <<subtitle, i>>
    /\ pc' = "item_bullets"
    /\ UNCHANGED <<lines, current_section, data, title, meta, bullets, parts>>
    /\ RenderUnchanged /\ ExportUnchanged

\* the loop of line 78 goes on: i < n and no break at lines 83-84
BodyCond ==
    IF i < n
    THEN IF Line(i) = <<>>
         THEN TRUE
         ELSE ~(StartsWith(Line(i), H2) \/ StartsWith(Line(i), H3))
    ELSE FALSE

\* lines 78-87, one iteration that does not break
ItemBodyLine ==
    /\ pc = "item_bullets" /\ BodyCond
    /\ bullets' =
         IF Line(i) # <<>> /\ StartsWith(Line(i), BulletMark)
         THEN Append(bullets, Strip(Drop(Line(i), 2)))
         ELSE bullets
    /\ i' = i + 1
    /\ UNCHANGED <<lines, pc, current_section, data, title, meta, subtitle, parts>>
    /\ RenderUnchanged /\ ExportUnchanged

\* lines 88-93, taken when the loop of line 78 ends or breaks
ItemAppend ==
    /\ pc = "item_bullets" /\ ~BodyCond
    /\ LET item == [title |-> title, meta |-> meta, subtitle |-> subtitle,
                    bullets |-> bullets]
       IN  IF IsProjectSection(current_section)
           THEN data' = [data EXCEPT !.projects = Append(@, item)]
           ELSE data' = [data EXCEPT !.experience = Append(@, item)]
    /\ pc' = "main"
    /\ UNCHANGED <<lines, i, current_section>>
    /\ ParseLocalsUnchanged /\ RenderUnchanged /\ ExportUnchanged

\* lines 96-98
SummaryBegin ==
    /\ At("summary")
    /\ parts' = <<Line(i)>>
    /\ i' = i + 1
    /\ pc' = "summary"
    /\ UNCHANGED <<lines, current_section, data, title, meta, subtitle, bullets>>
    /\ RenderUnchanged /\ ExportUnchanged

\* the condition of line 99
SummaryCond ==
    IF i < n THEN Line(i) # <<>> /\ ~StartsWith(Line(i), H2) ELSE FALSE

\* lines 99-101, one iteration
SummaryLine ==
    /\ pc = "summary" /\ SummaryCond
    /\ parts' = Append(parts, Line(i))
    /\ i' = i + 1
    /\ UNCHANGED <<lines, pc, current_section, data, title, meta, subtitle, bullets>>
    /\ RenderUnchanged /\ ExportUnchanged

\* lines 102-103
SummaryEnd ==
    /\ pc = "summary" /\ ~SummaryCond
    /\ data' = [data EXCEPT !.summary = Strip(Join(parts))]
    /\ pc' = "main"
    /\ UNCHANGED <<lines, i, current_section>>
    /\ ParseLocalsUnchanged /\ RenderUnchanged /\ ExportUnchanged

\* lines 105-108
AddSkill ==
    /\ At("skill")
    /\ data' = [data EXCEPT !.skills = Append(@, Strip(Drop(Line(i), 2)))]
    /\ i' = i + 1
    /\ UNCHANGED <<lines, pc, current_section>>
    /\ ParseLocalsUnchanged /\ RenderUnchanged /\ ExportUnchanged

\* lines 110-113
AddFit ==
    /\ At("fit")
    /\ data' = [data EXCEPT !.fit = Append(@, Strip(Drop(Line(i), 2)))]
    /\ i' = i + 1
    /\ UNCHANGED <<lines, pc, current_section>>
    /\ ParseLocalsUnchanged /\ RenderUnchanged /\ ExportUnchanged

\* the value line 118 appends
ContactEntry(line) == RStripChar(line, "\\")

\* lines 116-119, the condition of line 116 true
AddContact ==
    /\ At("contact")
    /\ data' =
         IF ~InSeq(Line(i), data.contacts)
         THEN [data EXCEPT !.contacts = Append(@, ContactEntry(Line(i)))]
         ELSE data
    /\ i' = i + 1
    /\ UNCHANGED <<lines, pc, current_section>>
    /\ ParseLocalsUnchanged /\ RenderUnchanged /\ ExportUnchanged

\* lines 116, 119, the condition of line 116 false
DropLine ==
    /\ At("drop")
    /\ i' = i + 1
    /\ UNCHANGED <<lines, pc, current_section, data>>
    /\ ParseLocalsUnchanged /\ RenderUnchanged /\ ExportUnchanged

ParseStep ==
    \/ ParseBegin \/ Return
    \/ SkipBlank \/ SkipImage \/ SetName \/ SetRole \/ SetSection
    \/ ItemBegin \/ ItemSkipBlank \/ ItemMeta \/ ItemSubtitle \/ ItemBodyLine
    \/ ItemAppend
    \/ SummaryBegin \/ SummaryLine \/ SummaryEnd
    \/ AddSkill \/ AddFit \/ AddContact \/ DropLine

ParseInit(docs) ==
    /\ lines \in docs
    /\ pc = "parse"
    /\ i = 0
    /\ current_section = <<>>
    /\ data = EmptyData
    /\ title = <<>> /\ meta = <<>> /\ subtitle = <<>> /\ bullets = <<>>
    /\ parts = <<>>
    /\ arg_image = <<>> /\ profile_image = <<>> /\ target_label = <<>>
    /\ html_out = <<>>
    /\ NoExport

---------------------------------------------------------------------------
(* build_html.  The document is a sequence of segments: a piece of the
   template's own markup, or a text the template interpolates. *)

Markup(m) == [markup |-> m, text |-> <<>>]
Interpolated(t) == [markup |-> "", text |-> t]

\* s.replace(c, r) for a single character c
RECURSIVE ReplaceChar(_, _, _)
ReplaceChar(s, c, r) ==
    IF s = <<>> THEN <<>>
    ELSE (IF Head(s) = c THEN r ELSE <<Head(s)>>) \o ReplaceChar(Tail(s), c, r)

Amp == <<"&", "a", "m", "p", ";">>
Lt == <<"&", "l", "t", ";">>
Gt == <<"&", "g", "t", ";">>
Quot == <<"&", "q", "u", "o", "t", ";">>
Apos == <<"&", "#", "x", "2", "7", ";">>

\* html.escape(s, quote=False)
HtmlEscape_NoQuote(s) ==
    ReplaceChar(ReplaceChar(ReplaceChar(s, "&", Amp), "<", Lt), ">", Gt)

\* html.escape(s), quote=True: "&" first, then "<", ">", '"' and "'"
HtmlEscape(s) ==
    ReplaceChar(
        ReplaceChar(
            ReplaceChar(ReplaceChar(ReplaceChar(s, "&", Amp), "<", Lt), ">", Gt),
            "\"", Quot),
        "'", Apos)

FitCap == 4
ContactCap == 4
SkillCap == 12

\* xs[:k]
Prefix(xs, k) == SubSeq(xs, 1, IF Len(xs) < k THEN Len(xs) ELSE k)

RECURSIVE Concat(_)
Concat(ss) == IF ss = <<>> THEN <<>> ELSE Head(ss) \o Concat(Tail(ss))

LiOpen == "<li>"
LiClose == "</li>"

\* _li
Li(items) ==
    Concat([k \in 1..Len(items) |->
        <<Markup(LiOpen), Interpolated(HtmlEscape(items[k])), Markup(LiClose)>>])

ItemOpen == "<div class=\"item\"><div class=\"row\"><div class=\"title\">"
ItemMetaOpen == "</div><div class=\"meta\">"
ItemRowClose == "</div></div>"
SubOpen == "<p class='sub'>"
SubClose == "</p>"
PointsOpen == "<ul class=\"points\">"
ItemClose == "</ul></div>"

\* one block of _items
ItemBlock(item) ==
    <<Markup(ItemOpen), Interpolated(HtmlEscape(item.title)),
      Markup(ItemMetaOpen), Interpolated(HtmlEscape(item.meta)),
      Markup(ItemRowClose)>>
    \o (IF item.subtitle # <<>>
        THEN <<Markup(SubOpen), Interpolated(HtmlEscape(item.subtitle)),
               Markup(SubClose)>>
        ELSE <<>>)
    \o <<Markup(PointsOpen)>> \o Li(item.bullets) \o <<Markup(ItemClose)>>

\* _items
Items(items) == Concat([k \in 1..Len(items) |-> ItemBlock(items[k])])

FitOpen == "<div class='fit'><strong>Fit</strong>"
FitClose == "</div>"

\* fit_boxes without the [:4]
FitBoxes_NoCap(fit) ==
    Concat([k \in 1..Len(fit) |->
        <<Markup(FitOpen), Interpolated(HtmlEscape(fit[k])), Markup(FitClose)>>])

\* fit_boxes, lines 147-149
FitBoxes(fit) ==
    LET shown == Prefix(fit, FitCap)
    IN  Concat([k \in 1..Len(shown) |->
            <<Markup(FitOpen), Interpolated(HtmlEscape(shown[k])), Markup(FitClose)>>])

TargetOpen == "<p class='target'>"
TargetClose == "</p>"

\* headline_right, line 150
HeadlineRight(label) ==
    IF label # <<>>
    THEN <<Markup(TargetOpen), Interpolated(HtmlEscape(label)), Markup(TargetClose)>>
    ELSE <<>>

ContactOpen == "<p>"
ContactClose == "</p>"

\* line 204
ContactList(contacts) ==
    LET shown == Prefix(contacts, ContactCap)
    IN  Concat([k \in 1..Len(shown) |->
            <<Markup(ContactOpen), Interpolated(HtmlEscape(shown[k])),
              Markup(ContactClose)>>])

DocOpen == "<!doctype html><html lang=\"en\"><head><title>"
TitleClose == " - Resume</title><style>...</style></head><body><main class=\"page\"><aside class=\"left\"><div class=\"photo\"><img src=\""
AltOpen == "\" alt=\""
NameOpen == "\" /></div><h2 class=\"name\">"
RoleOpen == "</h2><p class=\"role\">"
ContactsOpen == "</p><h3>Contact</h3><div class=\"contact-list\">"
SkillsOpen == "</div><h3>Core Skills</h3><ul class=\"skills-list\">"
HeadlineOpen == "</ul></aside><section class=\"right\"><div class=\"headline\"><h1>iOS Engineer Resume</h1>"
SummaryOpen == "</div><div class=\"summary\">"
ExperienceOpen == "</div><div class=\"section\"><h2>Professional Experience</h2>"
ProjectsOpen == "</div><div class=\"section\"><h2>Selected Project Highlights</h2>"
RoleFitOpen == "</div><div class=\"section\"><h2>Role Fit</h2><div class=\"fit-box\">"
DocClose == "</div></div></section></main></body></html>"

\* lines 146-220
BuildHtml(d, image, label) ==
    <<Markup(DocOpen), Interpolated(HtmlEscape(d.name)),
      Markup(TitleClose), Interpolated(HtmlEscape(image)),
      Markup(AltOpen), Interpolated(HtmlEscape(d.name)),
      Markup(NameOpen), Interpolated(HtmlEscape(d.name)),
      Markup(RoleOpen), Interpolated(HtmlEscape(d.role)),
      Markup(ContactsOpen)>>
    \o ContactList(d.contacts)
    \o <<Markup(SkillsOpen)>>
    \o Li(Prefix(d.skills, SkillCap))
    \o <<Markup(HeadlineOpen)>>
    \o HeadlineRight(label)
    \o <<Markup(SummaryOpen), Interpolated(HtmlEscape(d.summary)),
         Markup(ExperienceOpen)>>
    \o Items(d.experience)
    \o <<Markup(ProjectsOpen)>>
    \o Items(d.projects)
    \o <<Markup(RoleFitOpen)>>
    \o FitBoxes(d.fit)
    \o <<Markup(DocClose)>>

ParseUnchanged ==
    UNCHANGED <<lines, i, current_section, title, meta, subtitle, bullets, parts>>

\* a call of build_html with the arguments as given
Render ==
    /\ pc = "render"
    /\ html_out' = BuildHtml(data, profile_image, target_label)
    /\ pc' = "rendered"
    /\ UNCHANGED <<data, arg_image, profile_image, target_label>>
    /\ ParseUnchanged /\ ExportUnchanged

\* line 257
Placeholder ==
    <<"h","t","t","p","s",":","/","/","d","u","m","m","y","i","m","a","g","e",".",
      "c","o","m","/","4","0","0","x","4","0","0","/","e","6","e","e","f","7","/",
      "7","f","8","f","a","3",".","j","p","g","&","t","e","x","t","=","P","r","o",
      "f","i","l","e">>

\* line 255 without lines 256-257
MainImage_NoPlaceholder(arg, parsed) ==
    IF arg # <<>> THEN arg
    ELSE IF parsed.image_from_md # <<>> THEN parsed.image_from_md
    ELSE <<>>

\* lines 255-257
MainImage(arg, parsed) ==
    LET chosen == IF arg # <<>> THEN arg
                  ELSE IF parsed.image_from_md # <<>> THEN parsed.image_from_md
                  ELSE <<>>
    IN  IF chosen = <<>> THEN Placeholder ELSE chosen

\* main, lines 253-260, once parse_markdown has returned
MainRender ==
    /\ pc = "done"
    /\ profile_image' = MainImage(arg_image, data)
    /\ html_out' = BuildHtml(data, profile_image', target_label)
    /\ pc' = "main_rendered"
    /\ UNCHANGED <<data, arg_image, target_label>>
    /\ ParseUnchanged /\ ExportUnchanged

Init == ParseInit(Docs(AllLines, MaxLines))

Next == ParseStep

Spec == Init /\ [][Next]_vars

---------------------------------------------------------------------------
(* build_html on records drawn from bounded sets *)

Digits == <<"1","2","3","4","5","6","7","8","9","a","b","c","d","e","f","g">>

\* the k-th entry of a list: distinct for each k, with characters to escape
Sample(c, k) == <<c, "&", Digits[k], "<">>

SampleList(c, m) == [k \in 1..m |-> Sample(c, k)]

SampleItem(k) ==
    [title |-> Sample("T", k),
     meta |-> IF k % 2 = 1 THEN <<"\"", "m", "'">> ELSE <<>>,
     subtitle |-> IF k % 2 = 1 THEN <<>> ELSE Sample("u", k),
     bullets |-> SampleList("b", k - 1)]

SampleItems(m) == [k \in 1..m |-> SampleItem(k)]

Special == <<"<", "s", "c", "r", "i", "p", "t", ">", "&", "\"", "'">>

Records ==
    {[name |-> nm, role |-> <<"R", "'">>, contacts |-> SampleList("c", c),
      summary |-> <<"a", " ", "&", "a", "m", "p", ";", " ", ">">>,
      skills |-> SampleList("s", k),
      experience |-> SampleItems(e), projects |-> SampleItems(p),
      fit |-> SampleList("f", f), image_from_md |-> <<>>] :
        nm \in {<<>>, Special}, c \in 0..MaxContacts,
        k \in {0, 1} \cup (SkillCap - 1)..MaxSkills,
        e \in 0..MaxItems, p \in {0, 1}, f \in 0..MaxFit}

Images == {<<>>, <<"p", "&", "\"">>}
Labels == {<<>>, <<"t", "<">>}

RenderInit(records) ==
    /\ data \in records
    /\ profile_image \in Images
    /\ target_label \in Labels
    /\ pc = "render"
    /\ html_out = <<>>
    /\ arg_image = <<>>
    /\ lines = <<>> /\ i = 0 /\ current_section = <<>>
    /\ title = <<>> /\ meta = <<>> /\ subtitle = <<>> /\ bullets = <<>>
    /\ parts = <<>>
    /\ NoExport

InitRender == RenderInit(Records)
NextRender == Render
SpecRender == InitRender /\ [][NextRender]_vars

\* the photo: main on a document and a --profile-image, and build_html called
\* directly
InitPhoto ==
    \/ /\ lines \in Docs(CoreLines, MainMaxLines)
       /\ pc = "parse"
       /\ i = 0
       /\ current_section = <<>>
       /\ data = EmptyData
       /\ title = <<>> /\ meta = <<>> /\ subtitle = <<>> /\ bullets = <<>>
       /\ parts = <<>>
       /\ arg_image \in Images
       /\ profile_image = <<>> /\ target_label = <<>>
       /\ html_out = <<>>
       /\ NoExport
    \/ RenderInit({[EmptyData EXCEPT !.image_from_md = u, !.name = nm] :
                      u \in {<<>>, <<"u">>}, nm \in {<<>>, Special}})
NextPhoto == ParseStep \/ MainRender \/ Render
SpecPhoto == InitPhoto /\ [][NextPhoto]_vars

\* the same parser over documents of the lines the main loop tells apart
InitCore == ParseInit(Docs(CoreLines, MaxLines))
SpecCore == InitCore /\ [][Next]_vars

\* ... with a project section among the sections
InitProjects == ParseInit(Docs(CoreLines \cup {L_Projects}, MaxLines))
SpecProjects == InitProjects /\ [][Next]_vars

\* ... with a section whose name only contains "core skills", and two bullets
InitSkills ==
    ParseInit(Docs((CoreLines \ {L_Text}) \cup {L_MoreSkills, L_Bullet2}, MaxLines))
SpecSkills == InitSkills /\ [][Next]_vars

---------------------------------------------------------------------------
(* export_resume.py: main, export_docx, export_pdf.  The converters are
   external programs: a run returns some exit code and may or may not leave
   its output file behind. *)

Comma == ","
Docx == <<"d", "o", "c", "x">>
Pdf == <<"p", "d", "f">>
Supported == {Docx, Pdf}

\* s.split(c) for a single character c
RECURSIVE Split(_, _)
Split(s, c) ==
    LET k == Find(s, c)
    IN  IF k = -1 THEN <<s>>
        ELSE <<SubSeq(s, 1, k)>> \o Split(Drop(s, k + 1), c)

\* line 130
Requested(f) ==
    LET fmts == Split(f, Comma)
    IN  {Lower(Strip(fmts[k])) : k \in {j \in 1..Len(fmts) : Strip(fmts[j]) # <<>>}}

\* line 131
Unknown(f) == Requested(f) \ Supported

\* lines 37, 54, 74, 94 with the test of the output file left out
Succeeded_CodeOnly(code, exists) == code = 0

\* lines 37, 54, 74, 94
Succeeded(code, exists) == code = 0 /\ exists

\* lines 65-71: the engines of the pandoc attempts, the first without one
Attempts == <<"", "xelatex", "pdflatex", "wkhtmltopdf", "weasyprint">>

\* what run is called with (convert, out, engine) and what came of it
Call(convert, out, engine, code, present) ==
    [convert |-> convert, out |-> out, engine |-> engine, code |-> code,
     present |-> present]

ExportEnvUnchanged == UNCHANGED <<input_exists, formats, available>>
ParseRenderUnchanged ==
    UNCHANGED <<lines, i, current_section, data, title, meta, subtitle, bullets,
                parts, arg_image, profile_image, target_label, html_out>>

\* lines 126-128
MainMissingInput ==
    /\ pc = "export_main"
    /\ ~input_exists
    /\ exit_code' = 1
    /\ pc' = "exit"
    /\ UNCHANGED <<docx_exists, pdf_exists, requested, ok, docx_generated,
                   pdf_generated, docx_hint, attempt, entered, calls>>
    /\ ExportEnvUnchanged /\ ParseRenderUnchanged

\* lines 130-134
MainUnsupported ==
    /\ pc = "export_main"
    /\ input_exists
    /\ Unknown(formats) # {}
    /\ requested' = Requested(formats)
    /\ exit_code' = 1
    /\ pc' = "exit"
    /\ UNCHANGED <<docx_exists, pdf_exists, ok, docx_generated, pdf_generated,
                   docx_hint, attempt, entered, calls>>
    /\ ExportEnvUnchanged /\ ParseRenderUnchanged

\* lines 130-148
MainStart ==
    /\ pc = "export_main"
    /\ input_exists
    /\ Unknown(formats) = {}
    /\ requested' = Requested(formats)
    /\ ok' = TRUE
    /\ docx_generated' = FALSE
    /\ pc' = "main_docx"
    /\ UNCHANGED <<docx_exists, pdf_exists, pdf_generated, docx_hint, attempt,
                   entered, calls, exit_code>>
    /\ ExportEnvUnchanged /\ ParseRenderUnchanged

\* line 149, "docx" not requested
MainSkipDocx ==
    /\ pc = "main_docx"
    /\ Docx \notin requested
    /\ pc' = "main_pdf"
    /\ UNCHANGED <<docx_exists, pdf_exists, requested, ok, docx_generated,
                   pdf_generated, docx_hint, attempt, entered, calls, exit_code>>
    /\ ExportEnvUnchanged /\ ParseRenderUnchanged

\* lines 149-150: the call of export_docx
MainCallDocx ==
    /\ pc = "main_docx"
    /\ Docx \in requested
    /\ entered' = entered \cup {"export_docx"}
    /\ pc' = "docx_pandoc"
    /\ UNCHANGED <<docx_exists, pdf_exists, requested, ok, docx_generated,
                   pdf_generated, docx_hint, attempt, calls, exit_code>>
    /\ ExportEnvUnchanged /\ ParseRenderUnchanged

\* export_docx returns b to lines 150-151
DocxReturn(b) ==
    /\ docx_generated' = b
    /\ ok' = (ok /\ b)
    /\ pc' = "main_pdf"

\* lines 35-40
DocxPandoc ==
    /\ pc = "docx_pandoc"
    /\ "pandoc" \in available
    /\ \E code \in {0, 1}, wrote \in BOOLEAN :
          /\ docx_exists' = (docx_exists \/ wrote)
          /\ calls' = Append(calls, Call("pandoc", "docx", "", code, docx_exists'))
          /\ IF Succeeded(code, docx_exists')
             THEN DocxReturn(TRUE)
             ELSE pc' = "docx_textutil" /\ UNCHANGED <<ok, docx_generated>>
    /\ UNCHANGED <<pdf_exists, requested, pdf_generated, docx_hint, attempt,
                   entered, exit_code>>
    /\ ExportEnvUnchanged /\ ParseRenderUnchanged

\* line 35, pandoc missing
DocxNoPandoc ==
    /\ pc = "docx_pandoc"
    /\ "pandoc" \notin available
    /\ pc' = "docx_textutil"
    /\ UNCHANGED <<docx_exists, pdf_exists, requested, ok, docx_generated,
                   pdf_generated, docx_hint, attempt, entered, calls, exit_code>>
    /\ ExportEnvUnchanged /\ ParseRenderUnchanged

\* lines 43-60
DocxTextutil ==
    /\ pc = "docx_textutil"
    /\ "textutil" \in available
    /\ \E code \in {0, 1}, wrote \in BOOLEAN :
          /\ docx_exists' = (docx_exists \/ wrote)
          /\ calls' = Append(calls, Call("textutil", "docx", "", code, docx_exists'))
          /\ DocxReturn(Succeeded(code, docx_exists'))
    /\ UNCHANGED <<pdf_exists, requested, pdf_generated, docx_hint, attempt,
                   entered, exit_code>>
    /\ ExportEnvUnchanged /\ ParseRenderUnchanged

\* lines 43, 59-60, textutil missing
DocxNoTextutil ==
    /\ pc = "docx_textutil"
    /\ "textutil" \notin available
    /\ DocxReturn(FALSE)
    /\ UNCHANGED <<docx_exists, pdf_exists, requested, pdf_generated, docx_hint,
                   attempt, entered, calls, exit_code>>
    /\ ExportEnvUnchanged /\ ParseRenderUnchanged

\* line 153, "pdf" not requested
MainSkipPdf ==
    /\ pc = "main_pdf"
    /\ Pdf \notin requested
    /\ pc' = "main_return"
    /\ UNCHANGED <<docx_exists, pdf_exists, requested, ok, docx_generated,
                   pdf_generated, docx_hint, attempt, entered, calls, exit_code>>
    /\ ExportEnvUnchanged /\ ParseRenderUnchanged

\* lines 153-155: the call of export_pdf
MainCallPdf ==
    /\ pc = "main_pdf"
    /\ Pdf \in requested
    /\ docx_hint' = (docx_generated \/ docx_exists)
    /\ attempt' = 1
    /\ entered' = entered \cup {"export_pdf"}
    /\ pc' = "pdf_pandoc"
    /\ UNCHANGED <<docx_exists, pdf_exists, requested, ok, docx_generated,
                   pdf_generated, calls, exit_code>>
    /\ ExportEnvUnchanged /\ ParseRenderUnchanged

\* export_pdf returns b to lines 155-156
PdfReturn(b) ==
    /\ pdf_generated' = b
    /\ ok' = (ok /\ b)
    /\ pc' = "main_return"

\* lines 72-78: one round of the loop over the pandoc attempts
PdfPandoc ==
    /\ pc = "pdf_pandoc"
    /\ "pandoc" \in available
    /\ attempt <= Len(Attempts)
    /\ \E code \in {0, 1}, wrote \in BOOLEAN :
          /\ pdf_exists' = (pdf_exists \/ wrote)
          /\ calls' = Append(calls,
                 Call("pandoc", "pdf", Attempts[attempt], code, pdf_exists'))
          /\ IF Succeeded(code, pdf_exists')
             THEN PdfReturn(TRUE) /\ UNCHANGED attempt
             ELSE /\ attempt' = attempt + 1
                  /\ UNCHANGED <<pc, ok, pdf_generated>>
    /\ UNCHANGED <<docx_exists, requested, docx_generated, docx_hint, entered,
                   exit_code>>
    /\ ExportEnvUnchanged /\ ParseRenderUnchanged

\* line 64 with pandoc missing, or the loop of line 72 at its end
PdfPandocOver ==
    /\ pc = "pdf_pandoc"
    /\ "pandoc" \notin available \/ attempt > Len(Attempts)
    /\ pc' = "pdf_soffice"
    /\ UNCHANGED <<docx_exists, pdf_exists, requested, ok, docx_generated,
                   pdf_generated, docx_hint, attempt, entered, calls, exit_code>>
    /\ ExportEnvUnchanged /\ ParseRenderUnchanged

\* line 80
SofficeUsable == "soffice" \in available /\ docx_hint /\ docx_exists

\* lines 80-102.  docx_hint is output_docx, so expected (line 93) is
\* output_pdf and line 96 never runs.
PdfSoffice ==
    /\ pc = "pdf_soffice"
    /\ SofficeUsable
    /\ \E code \in {0, 1}, wrote \in BOOLEAN :
          /\ pdf_exists' = (pdf_exists \/ wrote)
          /\ calls' = Append(calls, Call("soffice", "pdf", "", code, pdf_exists'))
          /\ PdfReturn(Succeeded(code, pdf_exists'))
    /\ UNCHANGED <<docx_exists, requested, docx_generated, docx_hint, attempt,
                   entered, exit_code>>
    /\ ExportEnvUnchanged /\ ParseRenderUnchanged

\* lines 80, 101-102
PdfNoSoffice ==
    /\ pc = "pdf_soffice"
    /\ ~SofficeUsable
    /\ PdfReturn(FALSE)
    /\ UNCHANGED <<docx_exists, pdf_exists, requested, docx_generated, docx_hint,
                   attempt, entered, calls, exit_code>>
    /\ ExportEnvUnchanged /\ ParseRenderUnchanged

\* line 158
MainReturn ==
    /\ pc = "main_return"
    /\ exit_code' = (IF ok THEN 0 ELSE 2)
    /\ pc' = "exit"
    /\ UNCHANGED <<docx_exists, pdf_exists, requested, ok, docx_generated,
                   pdf_generated, docx_hint, attempt, entered, calls>>
    /\ ExportEnvUnchanged /\ ParseRenderUnchanged

\* the values of --formats: up to MaxFormats comma-separated entries
F_Docx == Docx
F_Pdf == <<" ", "P", "D", "F", " ">>
F_Empty == <<>>
F_Txt == <<"t", "x", "t">>
FormatEntries == {F_Docx, F_Pdf, F_Empty, F_Txt}

RECURSIVE JoinComma(_)
JoinComma(fs) ==
    IF fs = <<>> THEN <<>>
    ELSE IF Len(fs) = 1 THEN fs[1]
    ELSE fs[1] \o <<Comma>> \o JoinComma(Tail(fs))

FormatArgs ==
    {JoinComma(fs) : fs \in UNION {[1..k -> FormatEntries] : k \in 0..MaxFormats}}

Binaries == {"pandoc", "textutil", "soffice"}

InitExport ==
    /\ input_exists \in BOOLEAN
    /\ formats \in FormatArgs
    /\ available \in SUBSET Binaries
    /\ docx_exists \in BOOLEAN
    /\ pdf_exists \in BOOLEAN
    /\ requested = {} /\ ok = TRUE
    /\ docx_generated = FALSE /\ pdf_generated = FALSE /\ docx_hint = FALSE
    /\ attempt = 0 /\ entered = {} /\ calls = <<>> /\ exit_code = -1
    /\ pc = "export_main"
    /\ lines = <<>> /\ i = 0 /\ current_section = <<>>
    /\ data = EmptyData
    /\ title = <<>> /\ meta = <<>> /\ subtitle = <<>> /\ bullets = <<>>
    /\ parts = <<>>
    /\ arg_image = <<>> /\ profile_image = <<>> /\ target_label = <<>>
    /\ html_out = <<>>

NextExport ==
    \/ MainMissingInput \/ MainUnsupported \/ MainStart
    \/ MainSkipDocx \/ MainCallDocx
    \/ DocxPandoc \/ DocxNoPandoc \/ DocxTextutil \/ DocxNoTextutil
    \/ MainSkipPdf \/ MainCallPdf
    \/ PdfPandoc \/ PdfPandocOver \/ PdfSoffice \/ PdfNoSoffice
    \/ MainReturn

SpecExport == InitExport /\ [][NextExport]_vars

---------------------------------------------------------------------------
(* What a document says, read off its lines without running the parser *)

Positions == 1..Len(lines)

Text(k) == Strip(lines[k])

IsH1(k) == StartsWith(Text(k), H1)
IsH2(k) == StartsWith(Text(k), H2)
IsH3(k) == StartsWith(Text(k), H3)
IsBullet(k) == StartsWith(Text(k), BulletMark)

Max(S) == CHOOSE x \in S : \A y \in S : y <= x
Min(S) == CHOOSE x \in S : \A y \in S : x <= y

\* the lower-cased, trimmed text of the nearest "## " heading before position k,
\* empty when there is none
SectionBefore(k) ==
    LET hs == {h \in 1..(k - 1) : IsH2(h)}
    IN  IF hs = {} THEN <<>> ELSE Lower(Strip(Drop(Text(Max(hs)), 3)))

\* position k lies after a "### " heading of its own section
InItem(k) ==
    \E j \in 1..(k - 1) : IsH3(j) /\ \A h \in j..(k - 1) : ~IsH2(h)

BulletsUnder(Governs(_)) ==
    LET Keep(k) == IsBullet(k) /\ ~InItem(k) /\ Governs(SectionBefore(k))
        ks == SelectSeq([k \in Positions |-> k], Keep)
    IN  [j \in 1..Len(ks) |-> Strip(Drop(Text(ks[j]), 2))]

Fields ==
    {"name", "role", "contacts", "summary", "skills", "experience", "projects",
     "fit", "image_from_md"}

---------------------------------------------------------------------------
(* C1 *)

Rank ==
    [parse |-> 5, item_blanks |-> 4, item_subtitle |-> 3, item_bullets |-> 2,
     summary |-> 2, main |-> 1, done |-> 0]

\* bounds the number of steps still to come
Measure == (n - i) * 6 + Rank[pc]

BranchNames ==
    {"blank", "image", "name", "role", "section", "item", "summary", "skill",
     "fit", "contact", "drop"}

\* some statement of parse_markdown is ready to run
CanStep ==
    \/ pc = "parse"
    \/ pc = "main" /\ (IF i < n THEN Branch \in BranchNames ELSE TRUE)
    \/ pc \in {"item_blanks", "item_subtitle", "item_bullets", "summary"}

\* C1: parse_markdown is total.  Every step of the parse strictly decreases
\* Measure, which is never negative, so the parse ends; the cursor never moves
\* back, and every pass through the main loop's if-chain moves it forward; a
\* step is possible until the parse has returned; and it returns with the
\* cursor at the number of lines and a record that has all nine fields.
C1_ParseTotal ==
    /\ [][ /\ Measure' < Measure
           /\ i' >= i
           /\ (pc = "main" /\ pc' # "done") => i' > i ]_vars
    /\ [](Measure >= 0 /\ i <= n)
    /\ [](pc = "done" \/ CanStep)
    /\ [](pc = "done" => i = n /\ DOMAIN data = Fields)

\* a parse that went through an item and a summary run has returned
C1_Witness ==
    /\ pc = "done" /\ n = MaxLines
    /\ data.summary # <<>>
    /\ data.experience # <<>>

---------------------------------------------------------------------------
(* C2 *)

ItemPcs == {"item_blanks", "item_subtitle", "item_bullets"}

\* C2: every Item is appended to exactly one list, at its end: to projects
\* when the nearest "## " heading before the Item's "### " line, lower-cased,
\* contains "project" or "highlight", to experience otherwise; nothing else
\* changes either list.
C2_ItemRouting ==
    [][ /\ (pc = "main" /\ pc' = "item_blanks")
            => current_section = SectionBefore(i + 1)
        /\ (pc \in ItemPcs) => current_section' = current_section
        /\ IF pc = "item_bullets" /\ pc' = "main"
           THEN LET item == [title |-> title, meta |-> meta,
                             subtitle |-> subtitle, bullets |-> bullets]
                IN  IF \/ Contains(current_section, Project)
                       \/ Contains(current_section, Highlight)
                    THEN /\ data'.projects = Append(data.projects, item)
                         /\ data'.experience = data.experience
                    ELSE /\ data'.experience = Append(data.experience, item)
                         /\ data'.projects = data.projects
           ELSE /\ data'.projects = data.projects
                /\ data'.experience = data.experience ]_vars

\* two different Items of a "Project Highlights" section, in document order
C2_Witness ==
    /\ pc = "done"
    /\ Len(data.projects) = 2
    /\ data.projects[1].bullets # <<>>
    /\ data.projects[2].bullets = <<>>

---------------------------------------------------------------------------
(* C3 *)

\* C3: the contacts list contains no two equal entries.
C3_ContactsDistinct ==
    \A a, b \in 1..Len(data.contacts) :
        a # b => data.contacts[a] # data.contacts[b]

---------------------------------------------------------------------------
(* C4 *)

\* a line of running text: not blank, no image, no heading, no bold marker
IsProse(k) ==
    /\ Text(k) # <<>>
    /\ ~IsImage(Text(k))
    /\ ~StartsWith(Text(k), Hash)
    /\ ~StartsWith(Text(k), Bold)

\* C4: no paragraph of the professional-summary section is lost: every line
\* of running text between the section's heading and the next heading is part
\* of the returned summary.
C4_SummaryKeepsEveryParagraph ==
    pc = "done" =>
        \A k \in Positions :
            (IsProse(k) /\ ~InItem(k) /\ SectionBefore(k) = ProfessionalSummary)
                => Contains(data.summary, Text(k))

---------------------------------------------------------------------------
(* C5 *)

FirstH1 ==
    LET hs == {k \in Positions : IsH1(k)}
    IN  IF hs = {} THEN <<>> ELSE Strip(Drop(Text(Min(hs)), 2))

\* C5: the name is the trimmed text of the first "# " heading of the document,
\* wherever it sits, and empty when there is none.
C5_NameIsFirstH1 == pc = "done" => data.name = FirstH1

---------------------------------------------------------------------------
(* C6 *)

\* C6: skills is the in-order list of the bullets whose nearest "## " heading
\* is exactly "core skills" and that are not part of an Item; fit is that of
\* the sections whose name contains "role alignment".
C6_SkillsAndFit ==
    pc = "done" =>
        /\ LET IsCore(sec) == sec = CoreSkills
           IN  data.skills = BulletsUnder(IsCore)
        /\ LET IsAlign(sec) == Contains(sec, RoleAlignment)
           IN  data.fit = BulletsUnder(IsAlign)

\* a skill taken from a "Core Skills" section, and a bullet of a section whose
\* name only contains "core skills" left out
C6_Witness ==
    /\ pc = "done"
    /\ Len(data.skills) = 1
    /\ \E k \in Positions :
          IsBullet(k) /\ ~InItem(k) /\ Contains(SectionBefore(k), CoreSkills)
            /\ SectionBefore(k) # CoreSkills

---------------------------------------------------------------------------
(* C10 *)

\* C10: every "### " line produces its own Item.
C10_EveryH3IsAnItem ==
    pc = "done" =>
        Len(data.experience) + Len(data.projects)
            = Cardinality({k \in Positions : IsH3(k)})

---------------------------------------------------------------------------
(* What a reader of the document sees *)

AmpName == <<"a", "m", "p", ";">>
LtName == <<"l", "t", ";">>
GtName == <<"g", "t", ";">>
QuotName == <<"q", "u", "o", "t", ";">>
AposName == <<"#", "x", "2", "7", ";">>

\* the text an HTML reader decodes from t
RECURSIVE Unescape(_)
Unescape(t) ==
    IF t = <<>> THEN <<>>
    ELSE IF Head(t) # "&" THEN <<Head(t)>> \o Unescape(Tail(t))
    ELSE LET r == Tail(t) IN
         IF StartsWith(r, AmpName) THEN <<"&">> \o Unescape(Drop(r, 4))
         ELSE IF StartsWith(r, LtName) THEN <<"<">> \o Unescape(Drop(r, 3))
         ELSE IF StartsWith(r, GtName) THEN <<">">> \o Unescape(Drop(r, 3))
         ELSE IF StartsWith(r, QuotName) THEN <<"\"">> \o Unescape(Drop(r, 5))
         ELSE IF StartsWith(r, AposName) THEN <<"'">> \o Unescape(Drop(r, 5))
         ELSE <<"&">> \o Unescape(r)

\* t holds no markup character of its own: no "<", ">" or quote, and every "&"
\* starts a character reference
NoRawMarkup(t) ==
    \A k \in 1..Len(t) :
        /\ t[k] \notin {"<", ">", "\"", "'"}
        /\ t[k] = "&" =>
             LET r == Drop(t, k)
             IN  \/ StartsWith(r, AmpName) \/ StartsWith(r, LtName)
                 \/ StartsWith(r, GtName) \/ StartsWith(r, QuotName)
                 \/ StartsWith(r, AposName)

Where(m) == CHOOSE k \in 1..Len(html_out) : html_out[k].markup = m

\* the segments between the template pieces a and b
Between(a, b) == SubSeq(html_out, Where(a) + 1, Where(b) - 1)

\* the decoded texts that directly follow the markup open, in order
TextsAfter(segs, open) ==
    LET Opens(k) == k < Len(segs) /\ segs[k].markup = open
        ks == SelectSeq([k \in 1..Len(segs) |-> k], Opens)
    IN  [j \in 1..Len(ks) |-> Unescape(segs[ks[j] + 1].text)]

First(xs, k) == [j \in 1..(IF Len(xs) < k THEN Len(xs) ELSE k) |-> xs[j]]

Titles(items) == [j \in 1..Len(items) |-> items[j].title]

Rendered == pc \in {"rendered", "main_rendered"}

---------------------------------------------------------------------------
(* C7 *)

\* C7: the document shows the first min(4, len) fit entries, the first
\* min(4, len) contacts and the first min(12, len) skills, in the record's
\* order, and one item block for every Item of experience and of projects.
C7_CappedPrefixes ==
    Rendered =>
        /\ TextsAfter(Between(RoleFitOpen, DocClose), FitOpen) = First(data.fit, 4)
        /\ TextsAfter(Between(ContactsOpen, SkillsOpen), ContactOpen)
             = First(data.contacts, 4)
        /\ TextsAfter(Between(SkillsOpen, HeadlineOpen), LiOpen)
             = First(data.skills, 12)
        /\ TextsAfter(Between(ExperienceOpen, ProjectsOpen), ItemOpen)
             = Titles(data.experience)
        /\ TextsAfter(Between(ProjectsOpen, RoleFitOpen), ItemOpen)
             = Titles(data.projects)

\* a rendered record with more fit entries, contacts and skills than are shown
C7_Witness ==
    /\ pc = "rendered"
    /\ Len(data.fit) = 6 /\ Len(data.contacts) > 4 /\ Len(data.skills) > 12
    /\ Len(data.experience) = 2

---------------------------------------------------------------------------
(* C8 *)

Range(xs) == {xs[k] : k \in 1..Len(xs)}

ItemTexts(items) ==
    UNION {{items[k].title, items[k].meta} \cup Range(items[k].bullets)
           \cup (IF items[k].subtitle # <<>> THEN {items[k].subtitle} ELSE {}) :
           k \in 1..Len(items)}

\* the values the document shows
Shown ==
    {data.name, data.role, data.summary, profile_image}
    \cup (IF target_label # <<>> THEN {target_label} ELSE {})
    \cup Range(First(data.contacts, 4))
    \cup Range(First(data.skills, 12))
    \cup Range(First(data.fit, 4))
    \cup ItemTexts(data.experience) \cup ItemTexts(data.projects)

TextSegments == {k \in 1..Len(html_out) : html_out[k].markup = ""}

\* C8: every interpolated text reaches the document escaped: it holds no raw
\* "<", ">", "&" or quote, and decodes to the value it stands for.
C8_AllTextEscaped ==
    Rendered =>
        /\ \A k \in TextSegments : NoRawMarkup(html_out[k].text)
        /\ {Unescape(html_out[k].text) : k \in TextSegments} = Shown

\* a rendered record whose name is markup
C8_Witness ==
    /\ pc = "rendered"
    /\ data.name = Special
    /\ target_label # <<>> /\ profile_image # <<>>
    /\ Len(data.experience) = 2 /\ Len(data.fit) >= 1

---------------------------------------------------------------------------
(* C9 *)

\* the src of the photo element
PhotoSrc == html_out[Where(TitleClose) + 1].text

\* C9 as claimed: the photo never carries an empty URI, whether build_html is
\* called directly or through main, and with no image given and none in the
\* record the src is the placeholder.
C9_PhotoNeverEmpty ==
    Rendered =>
        /\ PhotoSrc # <<>>
        /\ (pc = "rendered" /\ profile_image = <<>> /\ data.image_from_md = <<>>)
             => Unescape(PhotoSrc) = Placeholder

\* C9 amended: through main the src is the --profile-image when given, else
\* the record's image_from_md when not empty, else the placeholder, and is
\* never empty; build_html itself shows the argument it is given, also when it
\* is empty.
C9_PhotoThroughMain ==
    /\ pc = "main_rendered" =>
         /\ PhotoSrc # <<>>
         /\ Unescape(PhotoSrc) =
              IF arg_image # <<>> THEN arg_image
              ELSE IF data.image_from_md # <<>> THEN data.image_from_md
              ELSE Placeholder
    /\ pc = "rendered" => Unescape(PhotoSrc) = profile_image

\* main rendered a document without an image, with no --profile-image
C9_Witness ==
    /\ pc = "main_rendered"
    /\ arg_image = <<>> /\ data.image_from_md = <<>>
    /\ Unescape(PhotoSrc) = Placeholder

---------------------------------------------------------------------------
(* C11 *)

\* a "## " heading's name that selects none of the summary, skills and fit
\* sections
Unrecognized(sec) ==
    /\ sec # <<>>
    /\ sec # ProfessionalSummary
    /\ sec # CoreSkills
    /\ ~Contains(sec, RoleAlignment)

IsBoldOnly(k) == StartsWith(Text(k), Bold) /\ EndsWith(Text(k), Bold)

\* the main loop is about to process a line, other than a "### " heading,
\* that stands under an unrecognized "## " heading
UnderUnrecognized ==
    /\ pc = "main" /\ i < n
    /\ Unrecognized(SectionBefore(i + 1))
    /\ ~IsH3(i + 1)

\* C11 as stated: under an unrecognized "## " heading every line that is not
\* a "### " heading and not part of an Item is dropped, whatever its kind:
\* processing it leaves the nine record fields unchanged and advances the
\* cursor by one.
C11_EveryLineDropped ==
    [][UnderUnrecognized => data' = data /\ i' = i + 1]_vars

\* C11, amended: under an unrecognized "## " heading a line that is not a
\* "### " heading and not part of an Item advances the cursor by one and
\* leaves the nine record fields unchanged, except that a first-level heading
\* met while name is unset becomes the name and a bold-only line met while
\* role is unset becomes the role; contacts never change.
C11_UnrecognizedSectionDrops ==
    [][UnderUnrecognized =>
        /\ i' = i + 1
        /\ data' =
              IF IsH1(i + 1) /\ data.name = <<>>
              THEN [data EXCEPT !.name = Strip(Drop(Text(i + 1), 2))]
              ELSE IF IsBoldOnly(i + 1) /\ data.role = <<>>
              THEN [data EXCEPT !.role = Strip(StripChar(Text(i + 1), "*"))]
              ELSE data
        /\ data'.contacts = data.contacts]_vars

\* a document whose first line is an unrecognized "## " heading, followed by
\* a first-level heading that became the name, a bold-only line that became
\* the role, and a bullet that was dropped
C11_Witness ==
    /\ pc = "done" /\ n = 4
    /\ IsH2(1) /\ Unrecognized(SectionBefore(2))
    /\ IsH1(2) /\ data.name = Strip(Drop(Text(2), 2))
    /\ IsBoldOnly(3) /\ data.role = Strip(StripChar(Text(3), "*"))
    /\ IsBullet(4)
    /\ data.skills = <<>> /\ data.fit = <<>> /\ data.contacts = <<>>
    /\ data.summary = <<>> /\ data.experience = <<>> /\ data.projects = <<>>

---------------------------------------------------------------------------
(* C12 *)

\* the runs that were to produce the given output, in the order they were made
Tried(out) ==
    LET For(c) == c.out = out IN SelectSeq(calls, For)

\* the run returned code 0 and its output file was there afterwards
Won(c) == c.code = 0 /\ c.present

Generated(out) == \E k \in 1..Len(Tried(out)) : Won(Tried(out)[k])

DocxOrder == <<<<"pandoc", "">>, <<"textutil", "">>>>
PdfOrder ==
    <<<<"pandoc", "">>, <<"pandoc", "xelatex">>, <<"pandoc", "pdflatex">>,
      <<"pandoc", "wkhtmltopdf">>, <<"pandoc", "weasyprint">>,
      <<"soffice", "">>>>

\* the converters of an order that are installed
Installed(order) ==
    LET There(c) == c[1] \in available IN SelectSeq(order, There)

\* the runs for an output follow the order, skipping only converters that
\* are not installed, and none comes after a run that won
InOrder(out, order) ==
    LET t == Tried(out)
        o == Installed(order)
    IN  /\ Len(t) <= Len(o)
        /\ \A k \in 1..Len(t) : <<t[k].convert, t[k].engine>> = o[k]
        /\ \A k \in 1..(Len(t) - 1) : ~Won(t[k])

OutOf(f) == IF f = Docx THEN "docx" ELSE "pdf"

\* C12: main returns 1, without running any converter, when the input is
\* missing or a format is unsupported.  Otherwise it returns 0 exactly when
\* every requested format was generated and 2 when one was not; export_pdf is
\* called whatever became of the DOCX; the runs of each export follow the
\* fixed order (pandoc, textutil for DOCX; the five pandoc attempts, soffice
\* for PDF), a later converter runs only after all earlier installed ones
\* failed, and the first run with code 0 and the output present is the last.
C12_ExitCodesAndFallbacks ==
    /\ InOrder("docx", DocxOrder)
    /\ InOrder("pdf", PdfOrder)
    /\ \A j, k \in 1..Len(calls) :
          calls[j].out = "pdf" /\ calls[k].out = "docx" => k < j
    /\ pc = "exit" =>
          IF ~input_exists \/ Unknown(formats) # {}
          THEN exit_code = 1 /\ calls = <<>> /\ entered = {}
          ELSE /\ exit_code \in {0, 2}
               /\ exit_code = 0 <=>
                     \A f \in Requested(formats) : Generated(OutOf(f))
               /\ Docx \in Requested(formats) => "export_docx" \in entered
               /\ Pdf \in Requested(formats) =>
                     /\ "export_pdf" \in entered
                     /\ "pandoc" \in available => Tried("pdf") # <<>>

\* both formats asked for; pandoc and textutil failed to give a DOCX, the
\* five pandoc attempts failed to give a PDF, soffice gave it: main returns 2
C12_Witness ==
    /\ pc = "exit" /\ exit_code = 2
    /\ Requested(formats) = Supported
    /\ Len(Tried("docx")) = 2 /\ ~Generated("docx")
    /\ Len(Tried("pdf")) = 6 /\ Won(Tried("pdf")[6])
    /\ Tried("pdf")[6].convert = "soffice"

====
